---- MODULE Spec2Model ----
(***************************************************************************)
(* Admissions CRM: the counselor assignment engine                         *)
(* (services/assignmentEngine.js), the presence tracker                    *)
(* (services/presenceTracking.js) and the route handlers that call them    *)
(* (routes/leads.js, routes/management.js, routes/presence.js).            *)
(*                                                                         *)
(* The relational store is modelled as tables keyed by id.  A request      *)
(* handler is a small process: every await on the store that other         *)
(* requests can interleave with is a step of its own, and a                *)
(* prisma.$transaction body is one step.                                   *)
(***************************************************************************)
EXTENDS Integers, FiniteSets, Sequences, TLC

VARIABLES counselor, lead, session, presence, attendance, now,
          intake, admin, heartbeat, sweep

vars == <<counselor, lead, session, presence, attendance, now,
          intake, admin, heartbeat, sweep>>

(***************************************************************************)
(* Identifiers and bounds                                                  *)
(***************************************************************************)
Counselors == {"c1", "c2"}
Leads == {"l1", "l2"}
Sessions == {"s1"}
Handlers == {"h1", "h2"}

\* JavaScript null for a counselor id, and an id that resolves to no row
NoCounselor == "null"
GhostCounselor == "cX"

\* largest maxCapacity a counselor profile is created with
MaxCap == 2

\* time is counted in ticks of 30 seconds
TicksPerMinute == 2
Minutes(ticks) == ticks \div TicksPerMinute

(***************************************************************************)
(* Strings whose characters the code inspects are sequences of characters  *)
(***************************************************************************)
LowerChar(ch) ==
  CASE ch = "C" -> "c"
    [] ch = "S" -> "s"
    [] ch = "E" -> "e"
    [] ch = "N" -> "n"
    [] ch = "H" -> "h"
    [] ch = "I" -> "i"
    [] OTHER -> ch

toLowerCase(s) == [i \in 1..Len(s) |-> LowerChar(s[i])]

\* String.prototype.includes: needle occurs as a contiguous substring
includes(hay, needle) ==
  \E i \in 0..(Len(hay) - Len(needle)) :
     \A j \in 1..Len(needle) : hay[i + j] = needle[j]

\* preferredLanguage of a lead that has none (null): .toLowerCase() throws
NullString == <<"\\0">>

Courses ==
  [cs |-> [name |-> <<"C", "S">>]]
CourseIds == {"cs"}
GhostCourse == "nocourse"

(***************************************************************************)
(* Results of calls that may throw                                         *)
(***************************************************************************)
NullCounselor == [id |-> NoCounselor, currentLoad |-> 0, maxCapacity |-> 0]
Snapshot(cs, c) ==
  [id |-> c, currentLoad |-> cs[c].currentLoad, maxCapacity |-> cs[c].maxCapacity]

AssignmentResult(c, auto, reason, score) ==
  [counselor |-> c, autoAssigned |-> auto, assignmentReason |-> reason, score |-> score]

\* no result: what a caller holds when the call threw or was not made
NoResult == AssignmentResult(NullCounselor, FALSE, "", 0)

Ok(v) == [ok |-> TRUE, value |-> v, error |-> ""]
Throw(msg) == [ok |-> FALSE, value |-> NoResult, error |-> msg]

\* message of the error a failing store call rejects with
StoreErrorMessage == "store unavailable"
TypeErrorMessage == "Cannot read properties of null (reading 'toLowerCase')"

(***************************************************************************)
(* Counselor profiles: expertise and languages are edited only by the      *)
(* admin path, which is outside the engine, so they are fixed per          *)
(* counselor.                                                              *)
(***************************************************************************)
Expertise(c) == IF c = "c1" THEN {<<"c", "s">>} ELSE {}
Languages(c) == IF c = "c1" THEN {<<"E", "n">>} ELSE {<<"H", "i">>}

\* what an intake request carries: course id and preferred language
LeadInputs ==
  { [courseId |-> "cs", preferredLanguage |-> <<"e", "n">>],
    [courseId |-> "cs", preferredLanguage |-> <<"h", "i">>],
    [courseId |-> GhostCourse, preferredLanguage |-> <<"e", "n">>],
    [courseId |-> "cs", preferredLanguage |-> NullString] }

\* store errors injected into one findBestCounselor call
NoFaults == [course |-> FALSE, counselors |-> FALSE, fallback |-> FALSE]
Faults == [course : BOOLEAN, counselors : BOOLEAN, fallback : BOOLEAN]

(***************************************************************************)
(* AssignmentEngine.findBestCounselor and getDefaultAssignment             *)
(***************************************************************************)
\* the counselors selected when the query also asks for a presence row
\* that is not OFFLINE
ActiveCounselorsOnline(cs) ==
  {c \in Counselors : /\ cs[c].availability = "ACTIVE"
                      /\ presence[c].exists
                      /\ presence[c].status # "OFFLINE"}

ActiveCounselors(cs) == {c \in Counselors : cs[c].availability = "ACTIVE"}

\* findFirst({availability: ACTIVE}, orderBy currentLoad asc): the rows the
\* store may return first; rows of equal load come in no defined order
FindFirstLowestLoad(cs) ==
  IF ActiveCounselors(cs) = {} THEN {NullCounselor}
  ELSE { Snapshot(cs, c) : c \in
         { c \in ActiveCounselors(cs) :
             \A d \in ActiveCounselors(cs) : cs[c].currentLoad <= cs[d].currentLoad } }

\* the findFirst call of getDefaultAssignment, which may reject
DefaultQuery(cs, f) ==
  IF f.fallback THEN {[ok |-> FALSE, row |-> NullCounselor, error |-> StoreErrorMessage]}
  ELSE {[ok |-> TRUE, row |-> r, error |-> ""] : r \in FindFirstLowestLoad(cs)}

DefaultResult(row, reason) ==
  IF row.id # NoCounselor
  THEN AssignmentResult(row, FALSE, "Default assignment: " \o reason, 0)
  ELSE AssignmentResult(NullCounselor, FALSE, "No counselors available: " \o reason, 0)

\* getDefaultAssignment with its catch block rethrowing
GetDefaultAssignmentRethrows(reason, cs, f) ==
  { IF q.ok THEN Ok(DefaultResult(q.row, reason)) ELSE Throw(q.error)
    : q \in DefaultQuery(cs, f) }

GetDefaultAssignment(reason, cs, f) ==
  { IF q.ok THEN Ok(DefaultResult(q.row, reason))
    ELSE Ok(AssignmentResult(NullCounselor, FALSE, "Error: " \o q.error, 0))
    : q \in DefaultQuery(cs, f) }

HasExpertise(c, course) ==
  /\ Expertise(c) # {}
  /\ \E exp \in Expertise(c) :
        \/ includes(toLowerCase(course.name), toLowerCase(exp))
        \/ includes(toLowerCase(exp), toLowerCase(course.name))

HasLanguage(c, l) ==
  /\ Languages(c) # {}
  /\ \E lang \in Languages(c) : toLowerCase(lang) = toLowerCase(l.preferredLanguage)

\* lead.preferredLanguage.toLowerCase() on a null language throws inside map()
ScoringThrows(cs, l) ==
  \E c \in ActiveCounselors(cs) : Languages(c) # {} /\ l.preferredLanguage = NullString

\* loadPercentage = currentLoad / maxCapacity * 100, compared without division
LoadBelow(row, pct) == row.currentLoad * 100 < pct * row.maxCapacity

\* a counselor the map() callback returns null for is skipped
Skipped(cs, c) ==
  \/ cs[c].availability # "ACTIVE"
  \/ ~LoadBelow(cs[c], 100)

Join(seq) ==
  IF Len(seq) = 0 THEN ""
  ELSE IF Len(seq) = 1 THEN seq[1]
  ELSE IF Len(seq) = 2 THEN seq[1] \o ", " \o seq[2]
  ELSE IF Len(seq) = 3 THEN seq[1] \o ", " \o seq[2] \o ", " \o seq[3]
  ELSE seq[1] \o ", " \o seq[2] \o ", " \o seq[3] \o ", " \o seq[4]

\* the scoring with the load bands closed at their upper ends
ScoredInclusiveBands(cs, c, l, course) ==
  LET e == HasExpertise(c, course)
      g == HasLanguage(c, l)
      low == cs[c].currentLoad * 100 <= 50 * cs[c].maxCapacity
      mid == ~low /\ cs[c].currentLoad * 100 <= 80 * cs[c].maxCapacity
      zero == cs[c].currentLoad = 0
  IN [ counselor |-> Snapshot(cs, c),
       score |-> (IF e THEN 40 ELSE 0) + (IF g THEN 30 ELSE 0)
                 + (IF low THEN 20 ELSE IF mid THEN 10 ELSE 0)
                 + (IF zero THEN 10 ELSE 0),
       reasons |-> Join( (IF e THEN <<"Expertise match">> ELSE <<>>)
                      \o (IF g THEN <<"Language match">> ELSE <<>>)
                      \o (IF low THEN <<"Low workload">>
                          ELSE IF mid THEN <<"Moderate workload">> ELSE <<>>)
                      \o (IF zero THEN <<"No current load">> ELSE <<>>) ) ]

\* score and reasons of one counselor that is not skipped
Scored(cs, c, l, course) ==
  LET e == HasExpertise(c, course)
      g == HasLanguage(c, l)
      low == LoadBelow(cs[c], 50)
      mid == ~low /\ LoadBelow(cs[c], 80)
      zero == cs[c].currentLoad = 0
  IN [ counselor |-> Snapshot(cs, c),
       score |-> (IF e THEN 40 ELSE 0) + (IF g THEN 30 ELSE 0)
                 + (IF low THEN 20 ELSE IF mid THEN 10 ELSE 0)
                 + (IF zero THEN 10 ELSE 0),
       reasons |-> Join( (IF e THEN <<"Expertise match">> ELSE <<>>)
                      \o (IF g THEN <<"Language match">> ELSE <<>>)
                      \o (IF low THEN <<"Low workload">>
                          ELSE IF mid THEN <<"Moderate workload">> ELSE <<>>)
                      \o (IF zero THEN <<"No current load">> ELSE <<>>) ) ]

\* the comparator without its tie-break on load
SortsBeforeByScoreOnly(a, b) == a.score > b.score

\* a sorts strictly before b: higher score, then lower load percentage
SortsBefore(a, b) ==
  \/ a.score > b.score
  \/ /\ a.score = b.score
     /\ a.counselor.currentLoad * b.counselor.maxCapacity
          < b.counselor.currentLoad * a.counselor.maxCapacity

\* scoredCounselors[0] after the sort; items that compare equal keep the
\* order the store returned them in, which is not defined
BestMatches(items) == {a \in items : \A b \in items : ~SortsBefore(b, a)}

\* the body of the try block, lines 16-118
FindBestCounselorTry(l, cs, f) ==
  IF f.course THEN {Throw(StoreErrorMessage)}
  ELSE IF l.courseId \notin CourseIds
  THEN GetDefaultAssignment("Course not found", cs, f)
  ELSE IF f.counselors THEN {Throw(StoreErrorMessage)}
  ELSE IF ActiveCounselors(cs) = {}
  THEN GetDefaultAssignment("No active counselors available", cs, f)
  ELSE IF ScoringThrows(cs, l) THEN {Throw(TypeErrorMessage)}
  ELSE LET items == { Scored(cs, c, l, Courses[l.courseId]) :
                        c \in {d \in ActiveCounselors(cs) : ~Skipped(cs, d)} }
       IN IF items = {}
          THEN GetDefaultAssignment("No counselors meet the criteria", cs, f)
          ELSE { Ok(AssignmentResult(b.counselor, TRUE,
                      "Auto-assigned: " \o b.reasons
                        \o " (Score: " \o ToString(b.score) \o ")",
                      b.score))
                 : b \in BestMatches(items) }

\* the possible outcomes of findBestCounselor(lead)
FindBestCounselor(l, cs, f) ==
  UNION { IF o.ok THEN {o}
          ELSE GetDefaultAssignment("Error in assignment: " \o o.error, cs, f)
          : o \in FindBestCounselorTry(l, cs, f) }

(***************************************************************************)
(* The store: tables keyed by id, and interactive transactions             *)
(***************************************************************************)
NoTime == -1

NoLead ==
  [exists |-> FALSE, courseId |-> GhostCourse, preferredLanguage |-> NullString,
   assignedCounselorId |-> NoCounselor, autoAssigned |-> FALSE,
   assignmentReason |-> "", status |-> "NEW"]

NoSession ==
  [exists |-> FALSE, leadId |-> "", counselorId |-> NoCounselor,
   scheduledDate |-> 0, status |-> "SCHEDULED", remarks |-> ""]

NoPresence ==
  [exists |-> FALSE, status |-> "OFFLINE", lastLoginAt |-> NoTime,
   lastActivityAt |-> NoTime, lastStatusChange |-> NoTime,
   activeMinutesToday |-> 0, totalActiveMinutes |-> 0]

\* the tables a transaction of the engine reads and writes
Store == [counselor |-> counselor, lead |-> lead, session |-> session]

\* a write that names a row the table does not hold rejects
LeadRowExists(S, l) == l \in Leads /\ S.lead[l].exists
CounselorRowExists(S, c) == c \in Counselors
SessionRowExists(S, x) == x \in Sessions /\ S.session[x].exists

\* leads.assignedCounselorId and session.counselorId are foreign keys
ForeignKeyOk(S, c) == c = NoCounselor \/ CounselorRowExists(S, c)

UpdateLead(S, l, data) ==
  [S EXCEPT !.lead[l] =
     [f \in DOMAIN S.lead[l] |-> IF f \in DOMAIN data THEN data[f] ELSE S.lead[l][f]]]

AddLoad(S, c, d) ==
  [S EXCEPT !.counselor[c].currentLoad = @ + d]

\* prisma.$transaction(async tx => ...): when the callback throws, every
\* write made through tx is rolled back
TxAbortKeepsWrites(before, partial, msg) ==
  [ok |-> FALSE, store |-> partial, error |-> msg]

TxAbort(before, partial, msg) ==
  [ok |-> FALSE, store |-> before, error |-> msg]

TxCommit(after) == [ok |-> TRUE, store |-> after, error |-> ""]

(***************************************************************************)
(* AssignmentEngine.assignLead(lead, assignmentResult)                     *)
(*   fault: 0 no store error, n > 0 the n-th write rejects                 *)
(***************************************************************************)
AssignLeadData(r) ==
  [assignedCounselorId |-> r.counselor.id, autoAssigned |-> r.autoAssigned,
   assignmentReason |-> r.assignmentReason]

\* assignLead writing the load it was handed plus one instead of incrementing
AssignLeadReadModifyWrite(S, l, r, fault) ==
  IF r.counselor.id = NoCounselor
  THEN IF fault = 1 \/ ~LeadRowExists(S, l)
       THEN [ok |-> FALSE, store |-> S, error |-> StoreErrorMessage]
       ELSE TxCommit(UpdateLead(S, l,
              [assignedCounselorId |-> NoCounselor, autoAssigned |-> FALSE,
               assignmentReason |-> r.assignmentReason]))
  ELSE LET c == r.counselor.id
           S1 == UpdateLead(S, l, AssignLeadData(r))
       IN IF fault = 1 \/ ~LeadRowExists(S, l) \/ ~ForeignKeyOk(S, c)
          THEN TxAbort(S, S, StoreErrorMessage)
          ELSE IF fault = 2 \/ ~CounselorRowExists(S1, c)
          THEN TxAbort(S, S1, StoreErrorMessage)
          ELSE TxCommit([S1 EXCEPT !.counselor[c].currentLoad =
                                      r.counselor.currentLoad + 1])

AssignLead(S, l, r, fault) ==
  IF r.counselor.id = NoCounselor
  THEN \* a single update outside any transaction
       IF fault = 1 \/ ~LeadRowExists(S, l)
       THEN [ok |-> FALSE, store |-> S, error |-> StoreErrorMessage]
       ELSE TxCommit(UpdateLead(S, l,
              [assignedCounselorId |-> NoCounselor, autoAssigned |-> FALSE,
               assignmentReason |-> r.assignmentReason]))
  ELSE LET c == r.counselor.id
           S1 == UpdateLead(S, l, AssignLeadData(r))
       IN IF fault = 1 \/ ~LeadRowExists(S, l) \/ ~ForeignKeyOk(S, c)
          THEN TxAbort(S, S, StoreErrorMessage)
          ELSE IF fault = 2 \/ ~CounselorRowExists(S1, c)
          THEN TxAbort(S, S1, StoreErrorMessage)
          ELSE TxCommit(AddLoad(S1, c, 1))

(***************************************************************************)
(* AssignmentEngine.reassignLead(lead, newCounselorId, reason)             *)
(*   old is lead.assignedCounselorId of the lead object the caller passes  *)
(***************************************************************************)
\* reassignLead decrementing the old counselor before its transaction starts
ReassignLeadDecrementsOutside(S, l, old, newCounselorId, reason, fault) ==
  LET S1 == IF old # NoCounselor THEN AddLoad(S, old, -1) ELSE S
  IN IF old # NoCounselor /\ (fault = 1 \/ ~CounselorRowExists(S, old))
     THEN TxAbort(S, S, StoreErrorMessage)
     ELSE IF newCounselorId # NoCounselor
     THEN IF ~CounselorRowExists(S1, newCounselorId)
          THEN TxAbort(S1, S1, "New counselor not found")
          ELSE LET S2 == AddLoad(S1, newCounselorId, 1)
                   S3 == UpdateLead(S2, l,
                           [assignedCounselorId |-> newCounselorId,
                            autoAssigned |-> FALSE,
                            assignmentReason |-> "Manually reassigned: " \o reason])
               IN IF fault = 2 THEN TxAbort(S1, S1, StoreErrorMessage)
                  ELSE IF fault = 3 \/ ~LeadRowExists(S2, l)
                  THEN TxAbort(S1, S2, StoreErrorMessage)
                  ELSE TxCommit(S3)
     ELSE LET S3 == UpdateLead(S1, l,
                      [assignedCounselorId |-> NoCounselor, autoAssigned |-> FALSE,
                       assignmentReason |-> "Unassigned: " \o reason])
          IN IF fault \in {2, 3} \/ ~LeadRowExists(S1, l)
             THEN TxAbort(S1, S1, StoreErrorMessage)
             ELSE TxCommit(S3)

ReassignLead(S, l, old, newCounselorId, reason, fault) ==
  LET S1 == IF old # NoCounselor THEN AddLoad(S, old, -1) ELSE S
  IN IF old # NoCounselor /\ (fault = 1 \/ ~CounselorRowExists(S, old))
     THEN TxAbort(S, S, StoreErrorMessage)
     ELSE IF newCounselorId # NoCounselor
     THEN IF ~CounselorRowExists(S1, newCounselorId)
          THEN TxAbort(S, S1, "New counselor not found")
          ELSE LET S2 == AddLoad(S1, newCounselorId, 1)
                   S3 == UpdateLead(S2, l,
                           [assignedCounselorId |-> newCounselorId,
                            autoAssigned |-> FALSE,
                            assignmentReason |-> "Manually reassigned: " \o reason])
               IN IF fault = 2 THEN TxAbort(S, S1, StoreErrorMessage)
                  ELSE IF fault = 3 \/ ~LeadRowExists(S2, l)
                  THEN TxAbort(S, S2, StoreErrorMessage)
                  ELSE TxCommit(S3)
     ELSE LET S3 == UpdateLead(S1, l,
                      [assignedCounselorId |-> NoCounselor, autoAssigned |-> FALSE,
                       assignmentReason |-> "Unassigned: " \o reason])
          IN IF fault \in {2, 3} \/ ~LeadRowExists(S1, l)
             THEN TxAbort(S, S1, StoreErrorMessage)
             ELSE TxCommit(S3)

(***************************************************************************)
(* Presence tracking (services/presenceTracking.js)                        *)
(***************************************************************************)
AwayAfterMinutes == 15
OfflineAfterMinutes == 30
HeartbeatCapMinutes == 5
ReleaseWindowMinutes == 30

TicksPerDay == 24 * 60 * TicksPerMinute

\* today.setHours(0, 0, 0, 0)
Midnight(t) == t - (t % TicksPerDay)

Max(a, b) == IF a > b THEN a ELSE b
Min(a, b) == IF a < b THEN a ELSE b

ReleaseRemark == "Counselor went offline - requires reassignment"

\* the tables the presence tracker reads and writes
PresenceStore ==
  [presence |-> presence, attendance |-> attendance, session |-> session, lead |-> lead]

AttendanceRows(P, c, day) == {a \in P.attendance : a.counselorId = c /\ a.date = day}

\* recordLogin creating an attendance row at every login
RecordLoginCreatesAttendance(P, c, t) ==
  LET row == IF ~P.presence[c].exists
             THEN [exists |-> TRUE, status |-> "ACTIVE", lastLoginAt |-> t,
                   lastActivityAt |-> t, lastStatusChange |-> t,
                   activeMinutesToday |-> 0, totalActiveMinutes |-> 0]
             ELSE [P.presence[c] EXCEPT !.lastLoginAt = t, !.lastActivityAt = t,
                                        !.status = "ACTIVE", !.lastStatusChange = t]
  IN [P EXCEPT !.presence[c] = row,
               !.attendance = P.attendance \cup
                  {[counselorId |-> c, date |-> Midnight(t), loginTime |-> t,
                    logoutTime |-> NoTime, activeMinutes |-> 0, status |-> "PRESENT"]}]

\* recordLogin(counselorId)
RecordLoginOp(P, c, t) ==
  LET row == IF ~P.presence[c].exists
             THEN [exists |-> TRUE, status |-> "ACTIVE", lastLoginAt |-> t,
                   lastActivityAt |-> t, lastStatusChange |-> t,
                   activeMinutesToday |-> 0, totalActiveMinutes |-> 0]
             ELSE [P.presence[c] EXCEPT !.lastLoginAt = t, !.lastActivityAt = t,
                                        !.status = "ACTIVE", !.lastStatusChange = t]
      old == AttendanceRows(P, c, Midnight(t))
      upserted ==
        IF old = {}
        THEN {[counselorId |-> c, date |-> Midnight(t), loginTime |-> t,
               logoutTime |-> NoTime, activeMinutes |-> 0, status |-> "PRESENT"]}
        ELSE {[a EXCEPT !.loginTime = t, !.status = "PRESENT"] : a \in old}
  IN [P EXCEPT !.presence[c] = row,
               !.attendance = (P.attendance \ old) \cup upserted]

\* presence.lastActivityAt || presence.lastLoginAt
LastSeen(row) ==
  IF row.lastActivityAt # NoTime THEN row.lastActivityAt ELSE row.lastLoginAt

\* the heartbeat row when an AWAY row is left AWAY
HeartbeatRowKeepsStatus(row, t) ==
  LET elapsed == Minutes(t - LastSeen(row))
      increment == IF row.status = "ACTIVE" /\ elapsed <= HeartbeatCapMinutes
                   THEN Min(elapsed, HeartbeatCapMinutes) ELSE 0
  IN [row EXCEPT !.lastActivityAt = t,
                 !.activeMinutesToday = @ + increment,
                 !.totalActiveMinutes = @ + increment]

\* the heartbeat row when a long gap is capped instead of dropped
HeartbeatRowCapsLongGaps(row, t) ==
  LET newStatus == IF row.status = "AWAY" THEN "ACTIVE" ELSE row.status
      elapsed == Minutes(t - LastSeen(row))
      increment == IF row.status = "ACTIVE"
                   THEN Min(elapsed, HeartbeatCapMinutes) ELSE 0
  IN [row EXCEPT !.lastActivityAt = t,
                 !.status = newStatus,
                 !.lastStatusChange = IF newStatus # row.status THEN t ELSE @,
                 !.activeMinutesToday = @ + increment,
                 !.totalActiveMinutes = @ + increment]

\* updateActivity(counselorId): the row it writes for a row that is not OFFLINE
HeartbeatRow(row, t) ==
  LET newStatus == IF row.status = "AWAY" THEN "ACTIVE" ELSE row.status
      elapsed == Minutes(t - LastSeen(row))
      increment == IF row.status = "ACTIVE" /\ elapsed <= HeartbeatCapMinutes
                   THEN Min(elapsed, HeartbeatCapMinutes) ELSE 0
  IN [row EXCEPT !.lastActivityAt = t,
                 !.status = newStatus,
                 !.lastStatusChange = IF newStatus # row.status THEN t ELSE @,
                 !.activeMinutesToday = @ + increment,
                 !.totalActiveMinutes = @ + increment]

\* updateActivity without its OFFLINE guard
UpdateActivityIgnoresOffline(P, c, t) ==
  IF ~P.presence[c].exists THEN P
  ELSE [P EXCEPT !.presence[c] = HeartbeatRow(P.presence[c], t)]

UpdateActivityOp(P, c, t) ==
  IF ~P.presence[c].exists \/ P.presence[c].status = "OFFLINE" THEN P
  ELSE [P EXCEPT !.presence[c] = HeartbeatRow(P.presence[c], t)]

\* what updateActivity returns: null, the row it read, or the updated row
UpdateActivityResult(P, c, t) ==
  IF ~P.presence[c].exists THEN NoPresence
  ELSE IF P.presence[c].status = "OFFLINE" THEN P.presence[c]
  ELSE UpdateActivityOp(P, c, t).presence[c]

\* markAsAway without its OFFLINE guard
MarkAsAwayIgnoresOffline(P, c, t) ==
  IF ~P.presence[c].exists THEN P
  ELSE IF P.presence[c].status # "AWAY"
  THEN [P EXCEPT !.presence[c].status = "AWAY", !.presence[c].lastStatusChange = t]
  ELSE P

\* markAsAway writing the row even when it is AWAY already
MarkAsAwayAlwaysWrites(P, c, t) ==
  IF ~P.presence[c].exists \/ P.presence[c].status = "OFFLINE" THEN P
  ELSE [P EXCEPT !.presence[c].status = "AWAY", !.presence[c].lastStatusChange = t]

\* markAsAway(counselorId)
MarkAsAwayOp(P, c, t) ==
  IF ~P.presence[c].exists \/ P.presence[c].status = "OFFLINE" THEN P
  ELSE IF P.presence[c].status # "AWAY"
  THEN [P EXCEPT !.presence[c].status = "AWAY", !.presence[c].lastStatusChange = t]
  ELSE P

\* calculateActiveMinutes(counselorId, presence)
CalculateActiveMinutes(row, t) ==
  IF row.lastLoginAt = NoTime \/ row.lastActivityAt = NoTime THEN 0
  ELSE LET loginTime == IF row.lastLoginAt < Midnight(t) THEN Midnight(t)
                        ELSE row.lastLoginAt
       IN Max(0, Minutes(row.lastActivityAt - loginTime))

\* the sessions found when the status is not part of the filter
UpcomingSessionsAnyStatus(P, c, t) ==
  { x \in Sessions : /\ P.session[x].exists
                     /\ P.session[x].counselorId = c
                     /\ P.session[x].scheduledDate
                          <= t + ReleaseWindowMinutes * TicksPerMinute }

\* the sessions found when the window excludes its last instant
UpcomingSessionsBeforeWindowEnd(P, c, t) ==
  { x \in Sessions : /\ P.session[x].exists
                     /\ P.session[x].counselorId = c
                     /\ P.session[x].status = "SCHEDULED"
                     /\ P.session[x].scheduledDate
                          < t + ReleaseWindowMinutes * TicksPerMinute }

\* the sessions releaseAppointments(counselorId) finds
UpcomingSessions(P, c, t) ==
  { x \in Sessions : /\ P.session[x].exists
                     /\ P.session[x].counselorId = c
                     /\ P.session[x].status = "SCHEDULED"
                     /\ P.session[x].scheduledDate
                          <= t + ReleaseWindowMinutes * TicksPerMinute }

\* releaseAppointments clearing the counselor of a lead and nothing else
ReleaseAppointmentsKeepsFlag(P, c, t) ==
  LET R == UpcomingSessions(P, c, t)
      freed == {P.session[x].leadId : x \in R}
  IN [P EXCEPT
        !.session = [x \in Sessions |->
                       IF x \in R
                       THEN [P.session[x] EXCEPT !.status = "CANCELLED",
                                                 !.remarks = ReleaseRemark]
                       ELSE P.session[x]],
        !.lead = [l \in Leads |->
                    IF l \in freed
                    THEN [P.lead[l] EXCEPT !.assignedCounselorId = NoCounselor,
                                           !.status = "NEW"]
                    ELSE P.lead[l]]]

\* releaseAppointments(counselorId)
ReleaseAppointments(P, c, t) ==
  LET R == UpcomingSessions(P, c, t)
      freed == {P.session[x].leadId : x \in R}
  IN [P EXCEPT
        !.session = [x \in Sessions |->
                       IF x \in R
                       THEN [P.session[x] EXCEPT !.status = "CANCELLED",
                                                 !.remarks = ReleaseRemark]
                       ELSE P.session[x]],
        !.lead = [l \in Leads |->
                    IF l \in freed
                    THEN [P.lead[l] EXCEPT !.assignedCounselorId = NoCounselor,
                                           !.autoAssigned = FALSE,
                                           !.status = "NEW"]
                    ELSE P.lead[l]]]

\* markAsOffline(counselorId)
MarkAsOfflineOp(P, c, t) ==
  IF ~P.presence[c].exists \/ P.presence[c].status = "OFFLINE" THEN P
  ELSE LET activeMinutes == CalculateActiveMinutes(P.presence[c], t)
           old == AttendanceRows(P, c, Midnight(t))
           P1 == [P EXCEPT !.presence[c].status = "OFFLINE",
                           !.presence[c].lastStatusChange = t,
                           !.presence[c].activeMinutesToday = activeMinutes,
                           !.attendance = (P.attendance \ old) \cup
                              {[a EXCEPT !.logoutTime = t,
                                         !.activeMinutes = activeMinutes,
                                         !.status = "PARTIAL"] : a \in old}]
       IN ReleaseAppointments(P1, c, t)

\* checkInactivity measuring idle time from the login
CheckInactivitySinceLogin(P, c, t) ==
  IF ~P.presence[c].exists \/ P.presence[c].status = "OFFLINE" THEN P
  ELSE LET inactiveMinutes == Minutes(t - P.presence[c].lastLoginAt)
       IN IF inactiveMinutes > OfflineAfterMinutes THEN MarkAsOfflineOp(P, c, t)
          ELSE IF inactiveMinutes > AwayAfterMinutes THEN MarkAsAwayOp(P, c, t)
          ELSE P

\* checkInactivity(counselorId)
CheckInactivityOp(P, c, t) ==
  IF ~P.presence[c].exists \/ P.presence[c].status = "OFFLINE" THEN P
  ELSE LET inactiveMinutes == Minutes(t - LastSeen(P.presence[c]))
       IN IF inactiveMinutes > OfflineAfterMinutes THEN MarkAsOfflineOp(P, c, t)
          ELSE IF inactiveMinutes > AwayAfterMinutes THEN MarkAsAwayOp(P, c, t)
          ELSE P

\* what markAsAway returns: null, the updated row, or the row it read
MarkAsAwayResult(P, c, t) ==
  IF ~P.presence[c].exists \/ P.presence[c].status = "OFFLINE" THEN NoPresence
  ELSE MarkAsAwayOp(P, c, t).presence[c]

\* what markAsOffline returns: null, or the row it read before its update
MarkAsOfflineResult(P, c, t) ==
  IF ~P.presence[c].exists THEN NoPresence ELSE P.presence[c]

\* what checkInactivity returns
CheckInactivityResult(P, c, t) ==
  IF ~P.presence[c].exists \/ P.presence[c].status = "OFFLINE" THEN P.presence[c]
  ELSE LET inactiveMinutes == Minutes(t - LastSeen(P.presence[c]))
       IN IF inactiveMinutes > OfflineAfterMinutes THEN MarkAsOfflineResult(P, c, t)
          ELSE IF inactiveMinutes > AwayAfterMinutes THEN MarkAsAwayResult(P, c, t)
          ELSE P.presence[c]

\* POST /check-all-inactivity: the entry it reports for one ACTIVE or AWAY row;
\* a null result has no status
CheckAllEntry(P, c, t) ==
  LET updated == CheckInactivityResult(P, c, t)
  IN [counselorId |-> c,
      previousStatus |-> P.presence[c].status,
      currentStatus |-> IF updated.exists THEN updated.status ELSE "OFFLINE",
      changed |-> (~updated.exists \/ P.presence[c].status # updated.status)]

\* getPresenceStatus reading the row without checking inactivity first
GetPresenceStatusReadsOnly(P, c, t) == P

\* getPresenceStatus(counselorId): the store after the call; the status it
\* returns is StatusRead of that store
GetPresenceStatusOp(P, c, t) ==
  IF ~P.presence[c].exists THEN P ELSE CheckInactivityOp(P, c, t)

StatusRead(P, c) == IF ~P.presence[c].exists THEN "OFFLINE" ELSE P.presence[c].status

(***************************************************************************)
(* State                                                                   *)
(*   intake[l]  the request that creates lead l: POST /api/leads, or the   *)
(*              bulk import                                                *)
(*   admin[h]   a POST /api/leads/:id/assign request                       *)
(*   heartbeat  an updateActivity call in progress                          *)
(*   sweep      a checkInactivity call in progress                          *)
(***************************************************************************)

IdleIntake ==
  [pc |-> "idle", route |-> "leads", outcome |-> Throw(""), faults |-> NoFaults,
   fault |-> 0]
IdleAdmin ==
  [pc |-> "idle", lead |-> "", old |-> NoCounselor, target |-> NoCounselor, ok |-> FALSE]
IdleHeartbeat == [pc |-> "idle", counselor |-> NoCounselor, t |-> 0, row |-> NoPresence]
IdleSweep ==
  [pc |-> "idle", counselor |-> NoCounselor, row |-> NoPresence, activeMinutes |-> 0,
   found |-> {}, current |-> "", wrote |-> FALSE]

\* which counselors are ACTIVE when the system starts
AvailabilityChoices ==
  { [c \in Counselors |-> "ACTIVE"],
    [c \in Counselors |-> IF c = "c1" THEN "ACTIVE" ELSE "INACTIVE"],
    [c \in Counselors |-> "INACTIVE"] }

InitTables ==
  /\ lead = [l \in Leads |-> NoLead]
  /\ session = [x \in Sessions |-> NoSession]
  /\ presence = [c \in Counselors |-> NoPresence]
  /\ attendance = {}
  /\ now = 0
  /\ intake = [l \in Leads |-> IdleIntake]
  /\ admin = [h \in Handlers |-> IdleAdmin]
  /\ heartbeat = IdleHeartbeat
  /\ sweep = IdleSweep

\* no lead is stored yet, so every counselor's load is 0
Init ==
  /\ \E av \in AvailabilityChoices : \E cap \in [Counselors -> 1..MaxCap] :
       /\ \E c \in Counselors : av[c] = "ACTIVE"
       /\ counselor = [c \in Counselors |->
                         [availability |-> av[c], currentLoad |-> 0,
                          maxCapacity |-> cap[c]]]
  /\ InitTables

\* prisma.lead.create gives the new row a fresh id: ids are used in order
LeadOrder == <<"l1", "l2">>
FreshLead(l) ==
  \E i \in 1..Len(LeadOrder) :
     /\ LeadOrder[i] = l
     /\ \A j \in 1..(i - 1) : intake[LeadOrder[j]].pc # "idle"

\* requests are numbered in the order they arrive
HandlerOrder == <<"h1", "h2">>
FreshHandler(h) ==
  \E i \in 1..Len(HandlerOrder) :
     /\ HandlerOrder[i] = h
     /\ \A j \in 1..(i - 1) : admin[HandlerOrder[j]].pc # "idle"

(***************************************************************************)
(* Lead intake: POST /api/leads                                            *)
(***************************************************************************)
\* prisma.lead.create({data: leadData})
CreateLead(l, in) ==
  /\ intake[l].pc = "idle"
  /\ FreshLead(l)
  /\ lead' = [lead EXCEPT ![l] =
                [NoLead EXCEPT !.exists = TRUE, !.courseId = in.courseId,
                               !.preferredLanguage = in.preferredLanguage]]
  /\ intake' = [intake EXCEPT ![l].pc = "created"]
  /\ UNCHANGED <<counselor, session, presence, attendance, now, admin,
               heartbeat, sweep>>

\* const assignmentResult = await assignmentEngine.findBestCounselor(lead)
FindBest(l, f) ==
  /\ intake[l].pc = "created"
  /\ \E o \in FindBestCounselor(lead[l], counselor, f) :
       /\ intake' = [intake EXCEPT ![l].pc = IF o.ok THEN "found" ELSE "failed",
                                   ![l].outcome = o,
                                   ![l].faults = f]
  /\ UNCHANGED <<counselor, lead, session, presence, attendance, now, admin,
               heartbeat, sweep>>

\* await assignmentEngine.assignLead(lead, assignmentResult)
AssignLeadStep(l, fault) ==
  /\ intake[l].pc = "found"
  /\ intake[l].route = "leads"
  /\ LET r == AssignLead(Store, l, intake[l].outcome.value, fault)
     IN /\ counselor' = r.store.counselor
        /\ lead' = r.store.lead
        /\ intake' = [intake EXCEPT ![l].pc = IF r.ok THEN "done" ELSE "failed",
                                    ![l].fault = fault]
  /\ UNCHANGED <<session, presence, attendance, now, admin, heartbeat, sweep>>

(***************************************************************************)
(* Enquiry intake: POST /api/leads/simple                                  *)
(***************************************************************************)
\* the language the enquiry handler stores on every lead it creates
EnquiryLanguage == <<"E", "n">>

\* what an enquiry carries: a course the institution has, or one it has not
EnquiryInputs ==
  { [courseId |-> "cs", preferredLanguage |-> EnquiryLanguage],
    [courseId |-> GhostCourse, preferredLanguage |-> EnquiryLanguage] }

\* prisma.lead.create({data: leadData}) of the enquiry handler
CreateEnquiryLead(l, in) ==
  /\ intake[l].pc = "idle"
  /\ FreshLead(l)
  /\ lead' = [lead EXCEPT ![l] =
                [NoLead EXCEPT !.exists = TRUE, !.courseId = in.courseId,
                               !.preferredLanguage = in.preferredLanguage]]
  /\ intake' = [intake EXCEPT ![l].pc = "created", ![l].route = "enquiry"]
  /\ UNCHANGED <<counselor, session, presence, attendance, now, admin,
               heartbeat, sweep>>

\* assignmentResult?.counselorId: truthy when the result object has the
\* property and it holds an id
HasCounselorId(r) ==
  /\ "counselorId" \in DOMAIN r
  /\ r["counselorId"] # NoCounselor

\* if (assignmentResult?.counselorId) await assignLead(lead, assignmentResult);
\* an error of assignLead is caught and the enquiry answers 201 either way
EnquiryAssignStep(l) ==
  /\ intake[l].pc = "found"
  /\ intake[l].route = "enquiry"
  /\ LET r == IF HasCounselorId(intake[l].outcome.value)
              THEN AssignLead(Store, l, intake[l].outcome.value, 0)
              ELSE TxCommit(Store)
     IN /\ counselor' = r.store.counselor
        /\ lead' = r.store.lead
  /\ intake' = [intake EXCEPT ![l].pc = "done"]
  /\ UNCHANGED <<session, presence, attendance, now, admin, heartbeat, sweep>>

\* bulk import: tx.lead.create({data: createData}) with the counselor the
\* row's counselor email resolves to, or null
ImportLead(l, in, c) ==
  /\ intake[l].pc = "idle"
  /\ FreshLead(l)
  /\ lead' = [lead EXCEPT ![l] =
                [NoLead EXCEPT !.exists = TRUE, !.courseId = in.courseId,
                               !.preferredLanguage = in.preferredLanguage,
                               !.autoAssigned = (c # NoCounselor),
                               !.assignedCounselorId = c]]
  /\ intake' = [intake EXCEPT ![l].pc = "imported"]
  /\ UNCHANGED <<counselor, session, presence, attendance, now, admin,
               heartbeat, sweep>>

(***************************************************************************)
(* Manual reassignment: POST /api/leads/:id/assign                         *)
(***************************************************************************)
\* const lead = await prisma.lead.findUnique({where: {id}})
AdminRead(h, l) ==
  /\ admin[h].pc = "idle"
  /\ FreshHandler(h)
  /\ lead[l].exists
  /\ admin' = [admin EXCEPT ![h] =
                 [IdleAdmin EXCEPT !.pc = "read", !.lead = l,
                                   !.old = lead[l].assignedCounselorId]]
  /\ UNCHANGED <<counselor, lead, session, presence, attendance, now, intake,
               heartbeat, sweep>>

\* await assignmentEngine.reassignLead(lead, counselorId, reason)
AdminReassign(h, target, fault) ==
  /\ admin[h].pc = "read"
  /\ LET r == ReassignLead(Store, admin[h].lead, admin[h].old, target,
                           "Manual assignment by admin", fault)
     IN /\ counselor' = r.store.counselor
        /\ lead' = r.store.lead
        /\ admin' = [admin EXCEPT ![h].pc = "done", ![h].target = target,
                                  ![h].ok = r.ok]
  /\ UNCHANGED <<session, presence, attendance, now, intake, heartbeat, sweep>>

(***************************************************************************)
(* Sessions: POST /api/sessions, POST /api/management/reassign-appointment *)
(***************************************************************************)
\* the dates a session is scheduled at: the last instant releaseAppointments
\* still counts as upcoming, and one minute later
SessionDates(t) ==
  { t + ReleaseWindowMinutes * TicksPerMinute,
    t + (ReleaseWindowMinutes + 1) * TicksPerMinute }

\* an admin schedules a session with the lead's assigned counselor
CreateSession(x, l, d) ==
  /\ ~session[x].exists
  /\ lead[l].exists
  /\ lead[l].assignedCounselorId # NoCounselor
  /\ session' = [session EXCEPT ![x] =
                   [exists |-> TRUE, leadId |-> l,
                    counselorId |-> lead[l].assignedCounselorId,
                    scheduledDate |-> d, status |-> "SCHEDULED", remarks |-> ""]]
  /\ UNCHANGED <<counselor, lead, presence, attendance, now, intake, admin,
               heartbeat, sweep>>

\* the transaction of POST /reassign-appointment
ReassignAppointment(S, x, newCounselorId) ==
  LET S1 == [S EXCEPT !.session[x].counselorId = newCounselorId,
                      !.session[x].status = "SCHEDULED",
                      !.session[x].remarks =
                         "Reassigned from " \o S.session[x].counselorId
                           \o " to " \o newCounselorId]
      S2 == UpdateLead(S1, S.session[x].leadId,
                       [assignedCounselorId |-> newCounselorId, autoAssigned |-> FALSE])
  IN IF ~ForeignKeyOk(S, newCounselorId) THEN TxAbort(S, S, StoreErrorMessage)
     ELSE IF ~LeadRowExists(S1, S.session[x].leadId)
     THEN TxAbort(S, S1, StoreErrorMessage)
     ELSE TxCommit(S2)

MgmtReassignAppointment(x, newCounselorId) ==
  /\ session[x].exists
  /\ LET r == ReassignAppointment(Store, x, newCounselorId)
     IN /\ session' = r.store.session
        /\ lead' = r.store.lead
  /\ UNCHANGED <<counselor, presence, attendance, now, intake, admin,
               heartbeat, sweep>>

(***************************************************************************)
(* Presence operations, each executed as one step                          *)
(***************************************************************************)
ApplyPresence(P) ==
  /\ presence' = P.presence
  /\ attendance' = P.attendance
  /\ session' = P.session
  /\ lead' = P.lead
  /\ UNCHANGED <<counselor, now, intake, admin, heartbeat, sweep>>

RecordLogin(c) ==
  /\ ApplyPresence(RecordLoginOp(PresenceStore, c, now))

UpdateActivity(c) ==
  /\ ApplyPresence(UpdateActivityOp(PresenceStore, c, now))

MarkAsAway(c) ==
  /\ ApplyPresence(MarkAsAwayOp(PresenceStore, c, now))

MarkAsOffline(c) ==
  /\ ApplyPresence(MarkAsOfflineOp(PresenceStore, c, now))

CheckInactivity(c) ==
  /\ ApplyPresence(CheckInactivityOp(PresenceStore, c, now))

GetPresenceStatus(c) ==
  /\ ApplyPresence(GetPresenceStatusOp(PresenceStore, c, now))

(***************************************************************************)
(* Spec: lead intake and manual reassignment, the requests interleaving    *)
(* at their awaits; no store error                                         *)
(***************************************************************************)
\* lead inputs of Spec: a course that resolves and one that does not
SpecInputs == {in \in LeadInputs : in.preferredLanguage = <<"e", "n">>}

ReassignTargets == Counselors \cup {NoCounselor, GhostCounselor}

Next ==
  \/ \E l \in Leads, in \in SpecInputs : CreateLead(l, in)
  \/ \E l \in Leads : FindBest(l, NoFaults)
  \/ \E l \in Leads : AssignLeadStep(l, 0)
  \/ \E h \in Handlers, l \in Leads : AdminRead(h, l)
  \/ \E h \in Handlers, c \in ReassignTargets : AdminReassign(h, c, 0)

Spec == Init /\ [][Next]_vars

(***************************************************************************)
(* SpecFault: the same requests when a write of a transaction may reject   *)
(***************************************************************************)
NextFault ==
  \/ \E l \in Leads, in \in SpecInputs : CreateLead(l, in)
  \/ \E l \in Leads : FindBest(l, NoFaults)
  \/ \E l \in Leads, fault \in 0..2 : AssignLeadStep(l, fault)
  \/ \E l \in Leads : AdminRead("h1", l)
  \/ \E c \in ReassignTargets, fault \in 0..3 : AdminReassign("h1", c, fault)

SpecFault == Init /\ [][NextFault]_vars

(***************************************************************************)
(* SpecIntake: the two endpoints that create a lead and invoke the         *)
(* assignment engine, their requests interleaving; no store error          *)
(***************************************************************************)
NextIntake ==
  \/ \E l \in Leads, in \in SpecInputs : CreateLead(l, in)
  \/ \E l \in Leads, in \in EnquiryInputs : CreateEnquiryLead(l, in)
  \/ \E l \in Leads : FindBest(l, NoFaults)
  \/ \E l \in Leads : AssignLeadStep(l, 0)
  \/ \E l \in Leads : EnquiryAssignStep(l)

SpecIntake == Init /\ [][NextIntake]_vars

(***************************************************************************)
(* SpecFind: findBestCounselor applied to every counselor table, lead      *)
(* and store error within the bounds                                       *)
(***************************************************************************)
\* largest maxCapacity of a counselor table findBestCounselor is applied to
FindMaxCap == 5

InitFind ==
  /\ \E av \in AvailabilityChoices :
     \E cap \in [Counselors -> 1..FindMaxCap] :
     \E load \in [Counselors -> 0..FindMaxCap] :
       /\ \A c \in Counselors : load[c] <= cap[c]
       /\ counselor = [c \in Counselors |->
                         [availability |-> av[c], currentLoad |-> load[c],
                          maxCapacity |-> cap[c]]]
  /\ InitTables

NextFind ==
  \/ \E in \in LeadInputs : CreateLead("l1", in)
  \/ \E f \in Faults : FindBest("l1", f)

SpecFind == InitFind /\ [][NextFind]_vars

(***************************************************************************)
(* SpecRelease: every operation that writes a lead's assignment: intake,   *)
(* import, manual reassignment, the reassign-appointment operation and     *)
(* the offline release, for counselors that have logged in                 *)
(***************************************************************************)
\* the lead every request of SpecRelease carries or imports
ReleaseInput == [courseId |-> "cs", preferredLanguage |-> <<"e", "n">>]

\* all counselors are ACTIVE, or none is; all have logged in
InitRelease ==
  /\ \E av \in {"ACTIVE", "INACTIVE"} :
       counselor = [c \in Counselors |->
                      [availability |-> av, currentLoad |-> 0,
                       maxCapacity |-> MaxCap]]
  /\ lead = [l \in Leads |-> NoLead]
  /\ session = [x \in Sessions |-> NoSession]
  /\ presence = RecordLoginOp(RecordLoginOp(
                    [presence |-> [c \in Counselors |-> NoPresence],
                     attendance |-> {}, session |-> session, lead |-> lead],
                    "c1", 0), "c2", 0).presence
  /\ attendance = RecordLoginOp(RecordLoginOp(
                    [presence |-> [c \in Counselors |-> NoPresence],
                     attendance |-> {}, session |-> session, lead |-> lead],
                    "c1", 0), "c2", 0).attendance
  /\ now = 0
  /\ intake = [l \in Leads |-> IdleIntake]
  /\ admin = [h \in Handlers |-> IdleAdmin]
  /\ heartbeat = IdleHeartbeat
  /\ sweep = IdleSweep

NextRelease ==
  \/ \E l \in Leads : CreateLead(l, ReleaseInput)
  \/ \E l \in Leads : FindBest(l, NoFaults)
  \/ \E l \in Leads : AssignLeadStep(l, 0)
  \/ \E l \in Leads, c \in Counselors \cup {NoCounselor} :
        ImportLead(l, ReleaseInput, c)
  \/ \E l \in Leads : AdminRead("h1", l)
  \/ \E c \in ReassignTargets : AdminReassign("h1", c, 0)
  \/ \E x \in Sessions, l \in Leads, d \in SessionDates(now) : CreateSession(x, l, d)
  \/ \E x \in Sessions, c \in Counselors \cup {GhostCounselor} :
        MgmtReassignAppointment(x, c)
  \/ \E c \in Counselors : MarkAsOffline(c)

SpecRelease == InitRelease /\ [][NextRelease]_vars

(***************************************************************************)
(* SpecPresence: the presence operations of the tracker, each executed as  *)
(* one step, while the clock advances                                      *)
(***************************************************************************)
\* the clock stops after this many minutes
MaxMinutes == 35

\* the clock advances by just over half the away threshold, a time that is
\* not a whole number of minutes
ClockSteps == {(AwayAfterMinutes \div 2 + 1) * TicksPerMinute + 1}

Tick(d) ==
  /\ now + d <= MaxMinutes * TicksPerMinute
  /\ now' = now + d
  /\ UNCHANGED <<counselor, lead, session, presence, attendance, intake, admin,
               heartbeat, sweep>>

\* no counselor has a presence row yet
InitPresence ==
  /\ counselor = [c \in Counselors |->
                    [availability |-> "ACTIVE", currentLoad |-> 0,
                     maxCapacity |-> MaxCap]]
  /\ InitTables

NextPresence ==
  \/ \E d \in ClockSteps : Tick(d)
  \/ \E c \in Counselors : RecordLogin(c)
  \/ \E c \in Counselors : UpdateActivity(c)
  \/ \E c \in Counselors : MarkAsAway(c)
  \/ \E c \in Counselors : MarkAsOffline(c)
  \/ \E c \in Counselors : CheckInactivity(c)
  \/ \E c \in Counselors : GetPresenceStatus(c)

SpecPresence == InitPresence /\ [][NextPresence]_vars

(***************************************************************************)
(* SpecHeartbeat: one counselor logging in, sending heartbeats, being      *)
(* checked for inactivity and being marked offline, the clock advancing    *)
(* by half the heartbeat cap                                               *)
(***************************************************************************)
\* the clock of SpecHeartbeat stops after this many minutes
HeartbeatMaxMinutes == 21

\* the clock advances by half the cap on the minutes one heartbeat counts
HeartbeatStep == (HeartbeatCapMinutes * TicksPerMinute) \div 2

HeartbeatTick ==
  /\ now + HeartbeatStep <= HeartbeatMaxMinutes * TicksPerMinute
  /\ now' = now + HeartbeatStep
  /\ UNCHANGED <<counselor, lead, session, presence, attendance, intake, admin,
                 heartbeat, sweep>>

NextHeartbeat ==
  \/ HeartbeatTick
  \/ RecordLogin("c1")
  \/ UpdateActivity("c1")
  \/ CheckInactivity("c1")
  \/ MarkAsOffline("c1")

SpecHeartbeat == InitPresence /\ [][NextHeartbeat]_vars

(***************************************************************************)
(* SpecSweep: the externally triggered inactivity check, each call one     *)
(* step, for counselors that logged in at time 0; one lead is assigned     *)
(* and has a session scheduled                                             *)
(***************************************************************************)
\* the clock of the sweep specifications stops after this many minutes
SweepMaxMinutes == 38

\* the clock advances by half the away threshold
SweepStep == (AwayAfterMinutes * TicksPerMinute) \div 2

\* the last time the clock reaches
LastSweepTime == ((SweepMaxMinutes * TicksPerMinute) \div SweepStep) * SweepStep

SweepTick ==
  /\ now + SweepStep <= SweepMaxMinutes * TicksPerMinute
  /\ now' = now + SweepStep
  /\ UNCHANGED <<counselor, lead, session, presence, attendance, intake, admin,
                 heartbeat, sweep>>

\* the store after POST /api/leads has created and assigned lead l1
StoreAfterIntake ==
  LET S0 == [counselor |-> [c \in Counselors |->
                              [availability |-> "ACTIVE", currentLoad |-> 0,
                               maxCapacity |-> MaxCap]],
             lead |-> [l \in Leads |->
                         IF l = "l1"
                         THEN [NoLead EXCEPT !.exists = TRUE,
                                             !.courseId = ReleaseInput.courseId,
                                             !.preferredLanguage =
                                                ReleaseInput.preferredLanguage]
                         ELSE NoLead],
             session |-> [x \in Sessions |-> NoSession]]
  IN { AssignLead(S0, "l1", o.value, 0).store :
         o \in FindBestCounselor(S0.lead["l1"], S0.counselor, NoFaults) }

InitSweep ==
  /\ \E S \in StoreAfterIntake : \E d \in SessionDates(LastSweepTime) :
       /\ counselor = S.counselor
       /\ lead = S.lead
       /\ session = [x \in Sessions |->
                       [exists |-> TRUE, leadId |-> "l1",
                        counselorId |-> S.lead["l1"].assignedCounselorId,
                        scheduledDate |-> d, status |-> "SCHEDULED", remarks |-> ""]]
  /\ presence = RecordLoginOp(RecordLoginOp(
                    [presence |-> [c \in Counselors |-> NoPresence],
                     attendance |-> {}, session |-> [x \in Sessions |-> NoSession],
                     lead |-> [l \in Leads |-> NoLead]],
                    "c1", 0), "c2", 0).presence
  /\ attendance = RecordLoginOp(RecordLoginOp(
                    [presence |-> [c \in Counselors |-> NoPresence],
                     attendance |-> {}, session |-> [x \in Sessions |-> NoSession],
                     lead |-> [l \in Leads |-> NoLead]],
                    "c1", 0), "c2", 0).attendance
  /\ now = 0
  /\ intake = [l \in Leads |-> IdleIntake]
  /\ admin = [h \in Handlers |-> IdleAdmin]
  /\ heartbeat = IdleHeartbeat
  /\ sweep = IdleSweep

NextSweep ==
  \/ SweepTick
  \/ \E c \in Counselors : RecordLogin(c)
  \/ \E c \in Counselors : UpdateActivity(c)
  \/ \E c \in Counselors : CheckInactivity(c)
  \/ \E x \in Sessions, c \in Counselors : MgmtReassignAppointment(x, c)

SpecSweep == InitSweep /\ [][NextSweep]_vars

(***************************************************************************)
(* SpecRace: updateActivity and checkInactivity with every await a step    *)
(* of its own, so that the two calls interleave; a store write may reject  *)
(***************************************************************************)
\* updateActivity: const now = new Date(); findUnique; the early returns
HeartbeatRead(c) ==
  /\ heartbeat.pc = "idle"
  /\ heartbeat' =
       [pc |-> IF ~presence[c].exists \/ presence[c].status = "OFFLINE"
               THEN "done" ELSE "read",
        counselor |-> c, t |-> now, row |-> presence[c]]
  /\ UNCHANGED <<counselor, lead, session, presence, attendance, now, intake, admin,
                 sweep>>

\* updateActivity: the update, its data computed from the row read earlier
HeartbeatWrite ==
  /\ heartbeat.pc = "read"
  /\ LET h == HeartbeatRow(heartbeat.row, heartbeat.t)
     IN presence' = [presence EXCEPT ![heartbeat.counselor] =
                       [@ EXCEPT !.lastActivityAt = h.lastActivityAt,
                                 !.status = h.status,
                                 !.lastStatusChange = h.lastStatusChange,
                                 !.activeMinutesToday = h.activeMinutesToday,
                                 !.totalActiveMinutes = h.totalActiveMinutes]]
  /\ heartbeat' = [heartbeat EXCEPT !.pc = "done"]
  /\ UNCHANGED <<counselor, lead, session, attendance, now, intake, admin, sweep>>

\* checkInactivity: findUnique, the early return and the two thresholds
SweepCheck(c) ==
  /\ sweep.pc = "idle"
  /\ LET inactiveMinutes == Minutes(now - LastSeen(presence[c]))
     IN sweep' = [IdleSweep EXCEPT
                    !.counselor = c,
                    !.pc = IF ~presence[c].exists \/ presence[c].status = "OFFLINE"
                           THEN "done"
                           ELSE IF inactiveMinutes > OfflineAfterMinutes THEN "offline"
                           ELSE IF inactiveMinutes > AwayAfterMinutes THEN "away"
                           ELSE "done"]
  /\ UNCHANGED <<counselor, lead, session, presence, attendance, now, intake, admin,
                 heartbeat>>

\* markAsAway called by checkInactivity: findUnique
SweepAwayRead ==
  /\ sweep.pc = "away"
  /\ LET row == presence[sweep.counselor]
     IN sweep' = [sweep EXCEPT
                    !.pc = IF row.status = "OFFLINE" \/ row.status = "AWAY"
                           THEN "done" ELSE "awayWrite",
                    !.row = row]
  /\ UNCHANGED <<counselor, lead, session, presence, attendance, now, intake, admin,
                 heartbeat>>

\* markAsAway: the update
SweepAwayWrite(fail) ==
  /\ sweep.pc = "awayWrite"
  /\ IF fail
     THEN /\ sweep' = [sweep EXCEPT !.pc = "failed"]
          /\ UNCHANGED presence
     ELSE /\ presence' = [presence EXCEPT ![sweep.counselor].status = "AWAY",
                                          ![sweep.counselor].lastStatusChange = now]
          /\ sweep' = [sweep EXCEPT !.pc = "done"]
  /\ UNCHANGED <<counselor, lead, session, attendance, now, intake, admin, heartbeat>>

\* markAsOffline called by checkInactivity: findUnique and
\* calculateActiveMinutes
SweepOfflineRead ==
  /\ sweep.pc = "offline"
  /\ LET row == presence[sweep.counselor]
     IN sweep' = [sweep EXCEPT
                    !.pc = IF row.status = "OFFLINE" THEN "done" ELSE "presence",
                    !.row = row,
                    !.activeMinutes = CalculateActiveMinutes(row, now)]
  /\ UNCHANGED <<counselor, lead, session, presence, attendance, now, intake, admin,
                 heartbeat>>

\* markAsOffline: counselorPresence.update
SweepWritePresence(fail) ==
  /\ sweep.pc = "presence"
  /\ IF fail
     THEN /\ sweep' = [sweep EXCEPT !.pc = "failed"]
          /\ UNCHANGED presence
     ELSE /\ presence' = [presence EXCEPT
                            ![sweep.counselor].status = "OFFLINE",
                            ![sweep.counselor].lastStatusChange = now,
                            ![sweep.counselor].activeMinutesToday = sweep.activeMinutes]
          /\ sweep' = [sweep EXCEPT !.pc = "attendance", !.wrote = TRUE]
  /\ UNCHANGED <<counselor, lead, session, attendance, now, intake, admin, heartbeat>>

\* markAsOffline: dailyAttendance.updateMany
SweepWriteAttendance(fail) ==
  /\ sweep.pc = "attendance"
  /\ IF fail
     THEN /\ sweep' = [sweep EXCEPT !.pc = "failed"]
          /\ UNCHANGED attendance
     ELSE /\ LET old == AttendanceRows(PresenceStore, sweep.counselor, Midnight(now))
             IN attendance' = (attendance \ old) \cup
                                {[a EXCEPT !.logoutTime = now,
                                           !.activeMinutes = sweep.activeMinutes,
                                           !.status = "PARTIAL"] : a \in old}
          /\ sweep' = [sweep EXCEPT !.pc = "release"]
  /\ UNCHANGED <<counselor, lead, session, presence, now, intake, admin, heartbeat>>

\* releaseAppointments: counselingSession.findMany
SweepFind ==
  /\ sweep.pc = "release"
  /\ LET R == UpcomingSessions(PresenceStore, sweep.counselor, now)
     IN sweep' = [sweep EXCEPT !.found = R,
                               !.pc = IF R = {} THEN "done" ELSE "cancel"]
  /\ UNCHANGED <<counselor, lead, session, presence, attendance, now, intake, admin,
                 heartbeat>>

\* releaseAppointments: counselingSession.update of the next session found
SweepCancel(x, fail) ==
  /\ sweep.pc = "cancel"
  /\ x \in sweep.found
  /\ IF fail
     THEN /\ sweep' = [sweep EXCEPT !.pc = "failed"]
          /\ UNCHANGED session
     ELSE /\ session' = [session EXCEPT ![x].status = "CANCELLED",
                                        ![x].remarks = ReleaseRemark]
          /\ sweep' = [sweep EXCEPT !.pc = "lead", !.current = x]
  /\ UNCHANGED <<counselor, lead, presence, attendance, now, intake, admin, heartbeat>>

\* releaseAppointments: lead.update of that session's lead
SweepFreeLead(fail) ==
  /\ sweep.pc = "lead"
  /\ IF fail
     THEN /\ sweep' = [sweep EXCEPT !.pc = "failed"]
          /\ UNCHANGED lead
     ELSE /\ lead' = [lead EXCEPT
                        ![session[sweep.current].leadId].assignedCounselorId = NoCounselor,
                        ![session[sweep.current].leadId].autoAssigned = FALSE,
                        ![session[sweep.current].leadId].status = "NEW"]
          /\ sweep' = [sweep EXCEPT
                         !.found = @ \ {sweep.current},
                         !.pc = IF sweep.found = {sweep.current} THEN "done" ELSE "cancel"]
  /\ UNCHANGED <<counselor, session, presence, attendance, now, intake, admin, heartbeat>>

NextRace ==
  \/ SweepTick
  \/ \E c \in Counselors : HeartbeatRead(c)
  \/ HeartbeatWrite
  \/ \E c \in Counselors : SweepCheck(c)
  \/ SweepAwayRead
  \/ \E fail \in BOOLEAN : SweepAwayWrite(fail)
  \/ SweepOfflineRead
  \/ \E fail \in BOOLEAN : SweepWritePresence(fail)
  \/ \E fail \in BOOLEAN : SweepWriteAttendance(fail)
  \/ SweepFind
  \/ \E x \in Sessions, fail \in BOOLEAN : SweepCancel(x, fail)
  \/ \E fail \in BOOLEAN : SweepFreeLead(fail)

SpecRace == InitSweep /\ [][NextRace]_vars

(***************************************************************************)
(* Properties of the assignment engine under Spec                          *)
(***************************************************************************)
Chosen(l) == intake[l].outcome.value.counselor

\* C1: a successful assignLead(lead, result) with a counselor in the result
\* stores that counselor's id on the lead, adds exactly 1 to that counselor's
\* currentLoad and leaves every other counselor's currentLoad as it was.
C1_AssignLeadAddsOne ==
  [][ \A l \in Leads :
        ( /\ intake[l].pc = "found"
          /\ intake'[l].pc = "done"
          /\ Chosen(l).id # NoCounselor )
        => /\ lead'[l].assignedCounselorId = Chosen(l).id
           /\ counselor'[Chosen(l).id].currentLoad
                = counselor[Chosen(l).id].currentLoad + 1
           /\ \A d \in Counselors \ {Chosen(l).id} :
                counselor'[d].currentLoad = counselor[d].currentLoad ]_vars

\* an assignLead has committed for a result that was computed from a load
\* another request has changed since
C1_Witness ==
  \E l \in Leads :
     /\ intake[l].pc = "done"
     /\ Chosen(l).id # NoCounselor
     /\ lead[l].assignedCounselorId = Chosen(l).id
     /\ counselor[Chosen(l).id].currentLoad > Chosen(l).currentLoad + 1

\* C3: every counselor has currentLoad <= maxCapacity after any sequence of
\* lead intakes and reassignLead calls.
C3_LoadWithinCapacity ==
  \A c \in Counselors : counselor[c].currentLoad <= counselor[c].maxCapacity

\* C4: two intakes that both chose the same counselor through the scoring
\* path, on the same load value that left exactly one free slot, do not leave
\* that counselor above its capacity.
C4_NoStaleDoubleAssignment ==
  \A l1, l2 \in Leads :
     ( /\ l1 # l2
       /\ intake[l1].pc = "done" /\ intake[l2].pc = "done"
       /\ intake[l1].outcome.value.autoAssigned
       /\ intake[l2].outcome.value.autoAssigned
       /\ Chosen(l1) = Chosen(l2)
       /\ Chosen(l1).currentLoad + 1 = Chosen(l1).maxCapacity )
     => counselor[Chosen(l1).id].currentLoad <= counselor[Chosen(l1).id].maxCapacity

\* C6: no counselor's currentLoad is ever negative.
C6_LoadNeverNegative ==
  \A c \in Counselors : counselor[c].currentLoad >= 0

(***************************************************************************)
(* Properties of findBestCounselor under SpecFind                          *)
(***************************************************************************)
\* C2: the counselor findBestCounselor returns, through the scoring path or
\* through the default path, has currentLoad / maxCapacity < 1.
C2_SelectedBelowFullLoad ==
  \A l \in Leads :
     (intake[l].pc = "found" /\ Chosen(l).id # NoCounselor)
     => Chosen(l).currentLoad < Chosen(l).maxCapacity

\* C8: findBestCounselor never raises: it returns a result whose counselor is
\* a counselor or null, with a boolean autoAssigned and a non-empty
\* assignmentReason, whatever the lead, the counselors and the store errors.
C8_FindNeverRaises ==
  \A l \in Leads :
     intake[l].pc \in {"found", "failed"}
     => /\ intake[l].pc = "found"
        /\ intake[l].outcome.ok
        /\ Chosen(l).id \in Counselors \cup {NoCounselor}
        /\ intake[l].outcome.value.autoAssigned \in BOOLEAN
        /\ Len(intake[l].outcome.value.assignmentReason) > 0

\* findBestCounselor has returned after the store rejected its fallback query
C8_Witness ==
  \E l \in Leads :
     /\ intake[l].pc = "found"
     /\ Chosen(l).id = NoCounselor
     /\ intake[l].outcome.value.assignmentReason = "Error: " \o StoreErrorMessage

(***************************************************************************)
(* Properties of assignLead under SpecFault                                *)
(***************************************************************************)
\* C9: when a write of assignLead rejects, the call fails and the lead table
\* and every counselor's currentLoad are exactly as before the call.
C9_FailedAssignChangesNothing ==
  [][ \A l \in Leads :
        ( /\ intake[l].pc = "found"
          /\ intake'[l].pc \in {"done", "failed"}
          /\ \/ intake'[l].fault = 1
             \/ intake'[l].fault = 2 /\ Chosen(l).id # NoCounselor )
        => /\ intake'[l].pc = "failed"
           /\ lead' = lead
           /\ counselor' = counselor ]_vars

\* an assignLead for a chosen counselor has failed at its second write, the
\* load increment
C9_Witness ==
  \E l \in Leads :
     /\ intake[l].pc = "failed"
     /\ intake[l].outcome.ok
     /\ Chosen(l).id # NoCounselor
     /\ intake[l].fault = 2
     /\ lead[l].assignedCounselorId = NoCounselor

(***************************************************************************)
(* Properties of the lead's assignment fields under SpecRelease            *)
(***************************************************************************)
AssignedLeads(c) ==
  {l \in Leads : lead[l].exists /\ lead[l].assignedCounselorId = c}

LoadMatches ==
  \A c \in Counselors : counselor[c].currentLoad = Cardinality(AssignedLeads(c))

\* C5: assignLead, reassignLead, markAsOffline with its release and the
\* reassign-appointment operation each keep every counselor's currentLoad
\* equal to the number of leads whose assignedCounselorId is that counselor
\* (a step of the bulk import is not one of these operations).
C5_LoadEqualsAssignedLeads ==
  [][ ( /\ LoadMatches
        /\ \A l \in Leads : intake'[l].pc = "imported" => intake[l].pc = "imported" )
      => LoadMatches' ]_vars

\* C7: a lead whose assignedCounselorId is null has autoAssigned = false,
\* after assignLead, reassignLead, releaseAppointments, the
\* reassign-appointment operation and a lead import.
C7_UnassignedNotAuto ==
  \A l \in Leads :
     (lead[l].exists /\ lead[l].assignedCounselorId = NoCounselor)
     => ~lead[l].autoAssigned

\* a lead the engine assigned automatically has been released by its
\* counselor going offline
C7_Witness ==
  \E l \in Leads, x \in Sessions :
     /\ intake[l].pc = "done"
     /\ intake[l].outcome.value.autoAssigned
     /\ session[x].exists /\ session[x].leadId = l
     /\ session[x].status = "CANCELLED"
     /\ session[x].remarks = ReleaseRemark
     /\ lead[l].assignedCounselorId = NoCounselor
     /\ lead[l].status = "NEW"

(***************************************************************************)
(* Properties of the presence tracker under SpecPresence                   *)
(***************************************************************************)
\* C10: with each presence operation executed as one step, every step that
\* takes a counselor's status from OFFLINE to ACTIVE or AWAY is a recordLogin
\* of that counselor: it leaves the tables as recordLogin writes them.
C10_OfflineLeftOnlyByLogin ==
  [][ \A c \in Counselors :
        (StatusRead(PresenceStore, c) = "OFFLINE" /\ presence'[c].status # "OFFLINE")
        => /\ presence' = RecordLoginOp(PresenceStore, c, now).presence
           /\ attendance' = RecordLoginOp(PresenceStore, c, now).attendance
           /\ UNCHANGED <<counselor, lead, session, now>> ]_vars

\* a counselor that markAsOffline had logged out has logged in again
C10_Witness ==
  \E c \in Counselors :
     /\ presence[c].status = "ACTIVE"
     /\ presence[c].lastLoginAt = now
     /\ \E a \in attendance :
          /\ a.counselorId = c
          /\ a.logoutTime # NoTime /\ a.logoutTime < now
          /\ a.loginTime = now
          /\ a.status = "PRESENT"

(***************************************************************************)
(* Properties of the interleaved presence calls under SpecRace             *)
(***************************************************************************)
\* C11: when a heartbeat and a sweep of the same counselor have both
\* finished and the sweep wrote OFFLINE, the stored status is OFFLINE: a
\* heartbeat that read the row before the sweep's write does not put the
\* status back to ACTIVE.
C11_OfflineWinsRace ==
  ( /\ heartbeat.pc = "done"
    /\ sweep.pc = "done"
    /\ sweep.wrote
    /\ heartbeat.counselor = sweep.counselor )
  => presence[sweep.counselor].status = "OFFLINE"

\* C17: when a write of markAsOffline or of its releaseAppointments has
\* rejected, none of the call's writes remain: the counselor is not OFFLINE
\* with an imminent SCHEDULED session left unreleased, and no session is
\* CANCELLED with the sentinel remark while its lead is still assigned to
\* that session's counselor.
C17_OfflineReleaseAllOrNothing ==
  sweep.pc = "failed"
  => /\ presence[sweep.counselor].status # "OFFLINE"
     /\ \A x \in Sessions :
          ~ ( /\ presence[sweep.counselor].status = "OFFLINE"
              /\ session[x].exists
              /\ session[x].counselorId = sweep.counselor
              /\ session[x].status = "SCHEDULED"
              /\ session[x].scheduledDate
                   <= presence[sweep.counselor].lastStatusChange + 30 * TicksPerMinute )
     /\ \A x \in Sessions :
          ~ ( /\ session[x].exists
              /\ session[x].status = "CANCELLED"
              /\ session[x].remarks = ReleaseRemark
              /\ lead[session[x].leadId].assignedCounselorId = session[x].counselorId )

(***************************************************************************)
(* Properties of the inactivity check under SpecSweep                      *)
(***************************************************************************)
\* whole minutes a presence row has been idle at time t
IdleMinutes(row, t) ==
  (t - (IF row.lastActivityAt # NoTime THEN row.lastActivityAt ELSE row.lastLoginAt))
    \div TicksPerMinute

\* the filter of GET /released-appointments: remarks contains the sentinel
ContainsSentinel(remarks) ==
  \E before \in {"", "Counselor went offline - "} :
     remarks = before \o "requires reassignment"

\* C12: checkInactivity called twice in immediate succession (the clock
\* reads the same whole idle minute at both calls) with nothing in between:
\* presence, attendance, sessions and leads after the second call are those
\* after the first call.
C12_CheckInactivityIdempotent ==
  \A c \in Counselors : \A d \in {0, 1} :
     LET first == CheckInactivityOp(PresenceStore, c, now)
         second == CheckInactivityOp(first, c, now + d)
     IN IdleMinutes(presence[c], now + d) = IdleMinutes(presence[c], now)
        => second = first

\* a checkInactivity call has just taken a counselor offline and released
\* its session
C12_Witness ==
  \E c \in Counselors, x \in Sessions :
     /\ presence[c].status = "OFFLINE"
     /\ presence[c].lastStatusChange = now
     /\ session[x].counselorId = c
     /\ session[x].status = "CANCELLED"
     /\ lead[session[x].leadId].assignedCounselorId = NoCounselor

C14_InactivityThresholds ==
  \A c \in Counselors :
     (presence[c].exists /\ presence[c].status \in {"ACTIVE", "AWAY"})
     => LET m == IdleMinutes(presence[c], now)
            after == CheckInactivityOp(PresenceStore, c, now)
        IN /\ m > 30 => after.presence[c].status = "OFFLINE"
           /\ (15 < m /\ m <= 30) => after.presence[c].status = "AWAY"
           /\ m <= 15 => after = PresenceStore

\* a counselor that logged in at T0 and was never active again is OFFLINE
\* after a check made more than 30 minutes later
C14_Witness ==
  \E c \in Counselors :
     /\ presence[c].status = "OFFLINE"
     /\ presence[c].lastLoginAt = 0
     /\ presence[c].lastActivityAt = 0
     /\ presence[c].lastStatusChange = now
     /\ now > 30 * TicksPerMinute

(***************************************************************************)
(* Properties of reassignLead under Spec                                   *)
(***************************************************************************)
\* C15: for a lead that was assigned to A and that a first reassignLead has
\* moved to B, a second reassignLead back to A, given either the lead record
\* the first call returned (counselor B) or the caller's original record
\* (counselor A), undoes the first call: A's load goes up by 1, B's load goes
\* down by 1, and the lead is assigned to A.
C15_ReassignRoundTrip ==
  [][ \A h, g \in Handlers : \A A, B \in Counselors :
        ( /\ h # g /\ A # B
          /\ admin[g].pc = "done" /\ admin[g].ok
          /\ admin[g].old = A /\ admin[g].target = B
          /\ admin[h].pc = "read"
          /\ admin[h].lead = admin[g].lead
          /\ admin[h].old \in {A, B}
          /\ lead[admin[g].lead].assignedCounselorId = B
          /\ admin'[h].pc = "done" /\ admin'[h].ok
          /\ admin'[h].target = A )
        => /\ counselor'[A].currentLoad = counselor[A].currentLoad + 1
           /\ counselor'[B].currentLoad = counselor[B].currentLoad - 1
           /\ lead'[admin[g].lead].assignedCounselorId = A ]_vars

\* C16: reassignLead with a newCounselorId that resolves to no counselor
\* fails, and the counselor table (the old counselor's load included) and
\* the lead table are as before the call.
C16_UnknownCounselorChangesNothing ==
  [][ \A h \in Handlers :
        ( /\ admin[h].pc = "read"
          /\ admin'[h].pc = "done"
          /\ admin'[h].target \notin Counselors \cup {NoCounselor} )
        => /\ ~admin'[h].ok
           /\ counselor' = counselor
           /\ lead' = lead ]_vars

\* a reassignLead of an assigned lead to a counselor that does not exist has
\* failed after its decrement
C16_Witness ==
  \E h \in Handlers :
     /\ admin[h].pc = "done"
     /\ admin[h].target = GhostCounselor
     /\ ~admin[h].ok
     /\ admin[h].old \in Counselors
     /\ lead[admin[h].lead].assignedCounselorId = admin[h].old


(***************************************************************************)
(* Properties of findBestCounselor under SpecFind                          *)
(***************************************************************************)
\* a counselor the scoring may return: ACTIVE and under 100% load
EligibleCounselors ==
  {c \in Counselors : /\ counselor[c].availability = "ACTIVE"
                      /\ counselor[c].currentLoad < counselor[c].maxCapacity}

\* the score the rules give counselor c for lead l
RuleScore(c, l) ==
  LET name == toLowerCase(Courses[lead[l].courseId].name)
      pct100 == counselor[c].currentLoad * 100
      cap == counselor[c].maxCapacity
  IN (IF \E e \in Expertise(c) : \/ includes(name, toLowerCase(e))
                                 \/ includes(toLowerCase(e), name)
      THEN 40 ELSE 0)
   + (IF \E g \in Languages(c) :
            toLowerCase(g) = toLowerCase(lead[l].preferredLanguage)
      THEN 30 ELSE 0)
   + (IF pct100 < 50 * cap THEN 20 ELSE IF pct100 < 80 * cap THEN 10 ELSE 0)
   + (IF counselor[c].currentLoad = 0 THEN 10 ELSE 0)

\* a has a load percentage no higher than b's
LoadPctAtMost(a, b) ==
  counselor[a].currentLoad * counselor[b].maxCapacity
    <= counselor[b].currentLoad * counselor[a].maxCapacity

\* the returned counselor is eligible, has the highest score and, among the
\* eligible counselors of that score, the lowest load percentage
ReturnsBest(l) ==
  LET chosen == intake[l].outcome.value.counselor.id
  IN /\ chosen \in EligibleCounselors
     /\ \A d \in EligibleCounselors :
          /\ RuleScore(d, l) <= RuleScore(chosen, l)
          /\ RuleScore(d, l) = RuleScore(chosen, l) => LoadPctAtMost(chosen, d)

C19_ScoreFollowsRules ==
  \A l \in Leads :
   /\ ( /\ lead[l].exists
        /\ lead[l].courseId \in CourseIds
        /\ lead[l].preferredLanguage # NullString )
       => \A c \in EligibleCounselors :
            Scored(counselor, c, lead[l], Courses[lead[l].courseId]).score
              = RuleScore(c, l)
   /\ (intake[l].pc = "found" /\ intake[l].outcome.value.autoAssigned)
      => LET r == intake[l].outcome.value
             n == RuleScore(r.counselor.id, l)
         IN /\ r.score = n
            /\ \E reasons \in
                 { Join(e \o g \o w \o z) :
                     e \in {<<>>, <<"Expertise match">>},
                     g \in {<<>>, <<"Language match">>},
                     w \in {<<>>, <<"Low workload">>, <<"Moderate workload">>},
                     z \in {<<>>, <<"No current load">>} } :
                 r.assignmentReason
                   = "Auto-assigned: " \o reasons \o " (Score: " \o ToString(n) \o ")"

\* expertise and language match at load 0: the score is 100
C19_Witness ==
  /\ intake["l1"].pc = "found"
  /\ intake["l1"].outcome.value.autoAssigned
  /\ intake["l1"].outcome.value.counselor.id = "c1"
  /\ counselor["c1"].currentLoad = 0
  /\ intake["l1"].outcome.value.score = 100
  /\ intake["l1"].outcome.value.assignmentReason
       = "Auto-assigned: Expertise match, Language match, Low workload, No current load (Score: 100)"


(***************************************************************************)
(* Properties of updateActivity under SpecPresence                         *)
(***************************************************************************)
\* C20: updateActivity on a counselor whose presence row is OFFLINE leaves
\* the presence row (status, lastActivityAt, lastStatusChange and both
\* minute counters) and every other table as they are, and returns the
\* stored row
C20_OfflineHeartbeatIsNoOp ==
  \A c \in Counselors :
    (presence[c].exists /\ presence[c].status = "OFFLINE")
      => /\ UpdateActivityOp(PresenceStore, c, now) = PresenceStore
         /\ UpdateActivityResult(PresenceStore, c, now) = presence[c]

\* a counselor is OFFLINE some minutes after the last activity, so that a
\* heartbeat applied to the row as if it were ACTIVE would rewrite it
C20_Witness ==
  \E c \in Counselors :
    /\ presence[c].exists
    /\ presence[c].status = "OFFLINE"
    /\ now > LastSeen(presence[c])
    /\ HeartbeatRow(presence[c], now) # presence[c]
    /\ UpdateActivityResult(PresenceStore, c, now) = presence[c]


(***************************************************************************)
(* Properties of the heartbeat accrual under SpecHeartbeat                 *)
(***************************************************************************)
\* the minutes one heartbeat at time t adds for row: the whole minutes since
\* lastActivityAt when the row is ACTIVE and they are at most 5, else 0
Contribution(row, t) ==
  LET e == (t - row.lastActivityAt) \div TicksPerMinute
  IN IF row.status = "ACTIVE" /\ e <= 5 THEN (IF e < 5 THEN e ELSE 5) ELSE 0

\* the times a heartbeat is applied at: now and up to 6 minutes later
HeartbeatTimes == now .. (now + (HeartbeatCapMinutes + 1) * TicksPerMinute)

\* C21: updateActivity on a presence row that is not OFFLINE adds the same
\* increment to activeMinutesToday and totalActiveMinutes: min(e, 5) when the
\* row was ACTIVE and e <= 5 whole minutes have elapsed since lastActivityAt,
\* and 0 otherwise; it sets lastActivityAt to the time of the call
C21_HeartbeatIncrement ==
  \A c \in Counselors : \A t \in HeartbeatTimes :
    (presence[c].exists /\ presence[c].status # "OFFLINE")
      => LET after == UpdateActivityOp(PresenceStore, c, t).presence[c]
             d == Contribution(presence[c], t)
         IN /\ after.activeMinutesToday = presence[c].activeMinutesToday + d
            /\ after.totalActiveMinutes = presence[c].totalActiveMinutes + d
            /\ after.lastActivityAt = t

\* a heartbeat has just added minutes to both counters
C21_Witness ==
  /\ presence["c1"].exists
  /\ presence["c1"].status = "ACTIVE"
  /\ presence["c1"].lastActivityAt = now
  /\ presence["c1"].lastLoginAt < now
  /\ presence["c1"].activeMinutesToday > 0
  /\ presence["c1"].activeMinutesToday = presence["c1"].totalActiveMinutes


\* C27: updateActivity on an AWAY row sets the status to ACTIVE, stamps
\* lastStatusChange with the time of the call and adds 0 minutes to both
\* counters; an updateActivity that follows within 5 minutes adds the whole
\* minutes elapsed since the first
C27_AwayHeartbeatResumes ==
  \A c \in Counselors : \A t \in HeartbeatTimes :
    (presence[c].exists /\ presence[c].status = "AWAY")
      => LET first == UpdateActivityOp(PresenceStore, c, t)
             row == first.presence[c]
         IN /\ row.status = "ACTIVE"
            /\ row.lastStatusChange = t
            /\ row.activeMinutesToday = presence[c].activeMinutesToday
            /\ row.totalActiveMinutes = presence[c].totalActiveMinutes
            /\ \A d \in 0..(5 * TicksPerMinute) :
                 LET next == UpdateActivityOp(first, c, t + d).presence[c]
                 IN /\ next.status = "ACTIVE"
                    /\ next.activeMinutesToday
                         = row.activeMinutesToday + (d \div TicksPerMinute)
                    /\ next.totalActiveMinutes
                         = row.totalActiveMinutes + (d \div TicksPerMinute)

\* a counselor came back from AWAY with a heartbeat that counted nothing,
\* and the next heartbeat has counted the minutes since
C27_Witness ==
  /\ presence["c1"].exists
  /\ presence["c1"].status = "ACTIVE"
  /\ presence["c1"].lastActivityAt = now
  /\ (presence["c1"].lastStatusChange - presence["c1"].lastLoginAt)
        \div TicksPerMinute > 15
  /\ presence["c1"].lastStatusChange < now
  /\ presence["c1"].totalActiveMinutes > 0
  /\ presence["c1"].totalActiveMinutes
       = (now - presence["c1"].lastStatusChange) \div TicksPerMinute

\* C22: the stored activeMinutesToday, and the activeMinutes of today's
\* attendance row, never exceed the sum of the heartbeat contributions
\* accrued while ACTIVE with a gap of at most 5 minutes.  That sum is
\* totalActiveMinutes: the row is created with 0 and only updateActivity
\* writes the field, adding each contribution to it.
C22_ActiveMinutesWithinContributions ==
  \A c \in Counselors :
    presence[c].exists
      => /\ presence[c].activeMinutesToday <= presence[c].totalActiveMinutes
         /\ \A a \in AttendanceRows(PresenceStore, c, Midnight(now)) :
              a.activeMinutes <= presence[c].totalActiveMinutes


(***************************************************************************)
(* Properties of lead intake under SpecIntake                              *)
(***************************************************************************)
\* C23: when findBestCounselor has returned a counselor for a new lead, the
\* intake request ends with the lead assigned to that counselor and that
\* counselor's currentLoad one higher
C23_IntakeAppliesResult ==
  [][ \A l \in Leads :
        ( /\ intake[l].pc = "found"
          /\ intake'[l].pc = "done"
          /\ Chosen(l).id # NoCounselor )
        => /\ lead'[l].assignedCounselorId = Chosen(l).id
           /\ counselor'[Chosen(l).id].currentLoad
                = counselor[Chosen(l).id].currentLoad + 1 ]_vars


(***************************************************************************)
(* SpecQueue: the reassignment queue of the management routes.  A lead is  *)
(* assigned and has a session that was scheduled for yesterday, for the    *)
(* start of today or for later today; its counselor goes offline and the   *)
(* session is reassigned                                                   *)
(***************************************************************************)
\* GET /released-appointments and the dashboard: the sessions returned
ReleasedAppointments(S, t) ==
  { x \in Sessions : /\ S.session[x].exists
                     /\ S.session[x].status = "CANCELLED"
                     /\ ContainsSentinel(S.session[x].remarks)
                     /\ S.session[x].scheduledDate >= Midnight(t) }

\* one minute before today starts, the instant it starts, and later today
QueueDates == {0 - TicksPerMinute, 0, ReleaseWindowMinutes * TicksPerMinute}

InitQueue ==
  /\ \E S \in StoreAfterIntake : \E d \in QueueDates :
       /\ counselor = S.counselor
       /\ lead = S.lead
       /\ session = [x \in Sessions |->
                       [exists |-> TRUE, leadId |-> "l1",
                        counselorId |-> S.lead["l1"].assignedCounselorId,
                        scheduledDate |-> d, status |-> "SCHEDULED", remarks |-> ""]]
  /\ presence = RecordLoginOp(RecordLoginOp(
                    [presence |-> [c \in Counselors |-> NoPresence],
                     attendance |-> {}, session |-> [x \in Sessions |-> NoSession],
                     lead |-> [l \in Leads |-> NoLead]],
                    "c1", 0), "c2", 0).presence
  /\ attendance = RecordLoginOp(RecordLoginOp(
                    [presence |-> [c \in Counselors |-> NoPresence],
                     attendance |-> {}, session |-> [x \in Sessions |-> NoSession],
                     lead |-> [l \in Leads |-> NoLead]],
                    "c1", 0), "c2", 0).attendance
  /\ now = 0
  /\ intake = [l \in Leads |-> IdleIntake]
  /\ admin = [h \in Handlers |-> IdleAdmin]
  /\ heartbeat = IdleHeartbeat
  /\ sweep = IdleSweep

NextQueue ==
  \/ SweepTick
  \/ \E c \in Counselors : RecordLogin(c)
  \/ \E c \in Counselors : MarkAsOffline(c)
  \/ \E x \in Sessions, c \in Counselors : MgmtReassignAppointment(x, c)

SpecQueue == InitQueue /\ [][NextQueue]_vars

\* C24: the sessions the released-appointments query returns are exactly the
\* sessions releaseAppointments has cancelled and reassign-appointment has
\* not yet been applied to, whenever they were scheduled
C24_ReleasedSessionsAreQueued ==
  \A x \in Sessions :
    x \in ReleasedAppointments(Store, now)
      <=> /\ session[x].exists
          /\ session[x].status = "CANCELLED"
          /\ session[x].remarks = ReleaseRemark


(***************************************************************************)
(* Properties of getPresenceStatus and recordLogin under SpecPresence      *)
(***************************************************************************)
\* C25: getPresenceStatus returns OFFLINE for a counselor without a presence
\* row; otherwise it returns the status stored after a checkInactivity, which
\* is OFFLINE when the counselor has been idle for more than 30 minutes and
\* is not ACTIVE when the counselor has been idle for more than 15 minutes
C25_StatusNeverStale ==
  \A c \in Counselors :
    LET returned == StatusRead(GetPresenceStatusOp(PresenceStore, c, now), c)
    IN IF ~presence[c].exists THEN returned = "OFFLINE"
       ELSE /\ returned = CheckInactivityOp(PresenceStore, c, now).presence[c].status
            /\ returned = GetPresenceStatusOp(PresenceStore, c, now).presence[c].status
            /\ IdleMinutes(presence[c], now) > 30 => returned = "OFFLINE"
            /\ IdleMinutes(presence[c], now) > 15 => returned # "ACTIVE"

\* a row still stored as ACTIVE after more than 30 idle minutes is read
C25_Witness ==
  \E c \in Counselors :
    /\ presence[c].exists
    /\ presence[c].status = "ACTIVE"
    /\ IdleMinutes(presence[c], now) > 30
    /\ StatusRead(GetPresenceStatusOp(PresenceStore, c, now), c) = "OFFLINE"


\* C26: recordLogin leaves the presence status ACTIVE whatever it was before,
\* with lastLoginAt = lastActivityAt = the time of the call, and leaves
\* exactly one attendance row for the counselor and the day, with status
\* PRESENT and loginTime = the time of the call
C26_LoginForcesActive ==
  \A c \in Counselors :
    LET after == RecordLoginOp(PresenceStore, c, now)
        rows == AttendanceRows(after, c, Midnight(now))
    IN /\ after.presence[c].exists
       /\ after.presence[c].status = "ACTIVE"
       /\ after.presence[c].lastLoginAt = now
       /\ after.presence[c].lastActivityAt = now
       /\ Cardinality(rows) = 1
       /\ \A a \in rows : a.status = "PRESENT" /\ a.loginTime = now
       /\ Cardinality(AttendanceRows(PresenceStore, c, Midnight(now))) <= 1

\* a counselor that went offline earlier today has logged in again: the one
\* attendance row of the day carries the logout and the new login
C26_Witness ==
  \E c \in Counselors :
    /\ presence[c].exists
    /\ presence[c].status = "ACTIVE"
    /\ presence[c].lastLoginAt = now
    /\ now > 0
    /\ \E a \in AttendanceRows(PresenceStore, c, Midnight(now)) :
         /\ a.logoutTime # NoTime
         /\ a.loginTime = now
         /\ a.status = "PRESENT"
    /\ Cardinality(AttendanceRows(PresenceStore, c, Midnight(now))) = 1


(***************************************************************************)
(* Properties of what checkInactivity returns, under SpecSweep             *)
(***************************************************************************)
\* C28: the record checkInactivity returns carries the status stored after
\* the call, and the bulk sweep reports changed = true with currentStatus
\* OFFLINE exactly for the ACTIVE or AWAY counselors the call took offline
C28_ReturnedStatusIsStored ==
  \A c \in Counselors :
    presence[c].exists
      => LET after == CheckInactivityOp(PresenceStore, c, now).presence[c]
             entry == CheckAllEntry(PresenceStore, c, now)
         IN /\ CheckInactivityResult(PresenceStore, c, now).status = after.status
            /\ presence[c].status \in {"ACTIVE", "AWAY"}
                 => ( (entry.changed /\ entry.currentStatus = "OFFLINE")
                        <=> after.status = "OFFLINE" )


(***************************************************************************)
(* SpecFrame: releaseAppointments applied, through markAsOffline, to       *)
(* stores in which two leads are assigned and the first has a session in   *)
(* any status, scheduled at the end of the release window or after it      *)
(***************************************************************************)
SessionStatuses == {"SCHEDULED", "COMPLETED", "CANCELLED", "RESCHEDULED"}

\* both leads are assigned; currentLoad counts the leads of each counselor
InitFrame ==
  /\ \E a \in [Leads -> Counselors] :
     \E st \in SessionStatuses : \E d \in SessionDates(0) :
       /\ counselor = [c \in Counselors |->
                         [availability |-> "ACTIVE",
                          currentLoad |-> Cardinality({l \in Leads : a[l] = c}),
                          maxCapacity |-> MaxCap]]
       /\ lead = [l \in Leads |->
                    [NoLead EXCEPT !.exists = TRUE,
                                   !.courseId = ReleaseInput.courseId,
                                   !.preferredLanguage = ReleaseInput.preferredLanguage,
                                   !.assignedCounselorId = a[l],
                                   !.autoAssigned = TRUE]]
       /\ session = [x \in Sessions |->
                       [exists |-> TRUE, leadId |-> "l1", counselorId |-> a["l1"],
                        scheduledDate |-> d, status |-> st, remarks |-> ""]]
  /\ presence = RecordLoginOp(RecordLoginOp(
                    [presence |-> [c \in Counselors |-> NoPresence],
                     attendance |-> {}, session |-> [x \in Sessions |-> NoSession],
                     lead |-> [l \in Leads |-> NoLead]],
                    "c1", 0), "c2", 0).presence
  /\ attendance = RecordLoginOp(RecordLoginOp(
                    [presence |-> [c \in Counselors |-> NoPresence],
                     attendance |-> {}, session |-> [x \in Sessions |-> NoSession],
                     lead |-> [l \in Leads |-> NoLead]],
                    "c1", 0), "c2", 0).attendance
  /\ now = 0
  /\ intake = [l \in Leads |-> IdleIntake]
  /\ admin = [h \in Handlers |-> IdleAdmin]
  /\ heartbeat = IdleHeartbeat
  /\ sweep = IdleSweep

NextFrame ==
  \/ SweepTick
  \/ \E c \in Counselors : RecordLogin(c)
  \/ \E c \in Counselors : MarkAsOffline(c)

SpecFrame == InitFrame /\ [][NextFrame]_vars

\* the sessions of c that are SCHEDULED for now + 30 minutes or earlier
ImminentSessions(c) ==
  { x \in Sessions : /\ session[x].exists
                     /\ session[x].counselorId = c
                     /\ session[x].status = "SCHEDULED"
                     /\ session[x].scheduledDate <= now + 30 * TicksPerMinute }

\* C29: when counselor c goes offline, releaseAppointments changes only the
\* sessions of c that are SCHEDULED for now + 30 minutes or earlier and the
\* leads of those sessions; every other session, every other lead and every
\* counselor's currentLoad stay as they were
C29_ReleaseChangesOnlyImminent ==
  [][ \A c \in Counselors :
        (presence[c].status # "OFFLINE" /\ presence'[c].status = "OFFLINE")
          => /\ \A x \in Sessions \ ImminentSessions(c) : session'[x] = session[x]
             /\ \A l \in Leads \ {session[x].leadId : x \in ImminentSessions(c)} :
                  lead'[l] = lead[l]
             /\ \A d \in Counselors :
                  counselor'[d].currentLoad = counselor[d].currentLoad ]_vars

\* a counselor with two leads has gone offline: the session of the first
\* lead is released and the second lead is still assigned to the counselor
C29_Witness ==
  \E c \in Counselors :
    /\ presence[c].status = "OFFLINE"
    /\ session["s1"].counselorId = c
    /\ session["s1"].status = "CANCELLED"
    /\ session["s1"].remarks = ReleaseRemark
    /\ lead["l1"].assignedCounselorId = NoCounselor
    /\ lead["l2"].assignedCounselorId = c
    /\ counselor[c].currentLoad = 2


(***************************************************************************)
(* SpecAvailability: findBestCounselor called for a new lead while the     *)
(* counselors log in, go away and go offline                               *)
(***************************************************************************)
\* every counselor has capacity MaxCap and any load up to it
InitAvailability ==
  /\ \E av \in AvailabilityChoices : \E load \in [Counselors -> 0..MaxCap] :
       counselor = [c \in Counselors |->
                      [availability |-> av[c], currentLoad |-> load[c],
                       maxCapacity |-> MaxCap]]
  /\ InitTables

NextAvailability ==
  \/ \E in \in LeadInputs : CreateLead("l1", in)
  \/ FindBest("l1", NoFaults)
  \/ \E c \in Counselors : RecordLogin(c)
  \/ \E c \in Counselors : MarkAsAway(c)
  \/ \E c \in Counselors : MarkAsOffline(c)

SpecAvailability == InitAvailability /\ [][NextAvailability]_vars

\* C30: a step that changes presence rows and leaves the lead and every
\* counselor's availability, currentLoad and maxCapacity as they are leaves
\* the possible results of findBestCounselor (counselor, autoAssigned, score
\* and assignmentReason) as they are, whatever store calls fail
C30_ResultIgnoresPresence ==
  [][ \A l \in Leads : \A f \in Faults :
        ( /\ lead[l].exists
          /\ lead'[l] = lead[l]
          /\ counselor' = counselor
          /\ presence' # presence )
        => FindBestCounselor(lead[l], counselor, f)'
             = FindBestCounselor(lead[l], counselor, f) ]_vars

\* the scoring has returned a counselor whose presence row is OFFLINE while
\* the other counselor has no presence row
C30_Witness ==
  \E c \in Counselors :
    /\ intake["l1"].pc = "found"
    /\ intake["l1"].outcome.value.autoAssigned
    /\ intake["l1"].outcome.value.counselor.id = c
    /\ presence[c].exists
    /\ presence[c].status = "OFFLINE"
    /\ \E d \in Counselors \ {c} : ~presence[d].exists

====
